---- MODULE Spec2Model ----
(***************************************************************************)
(* Model of dataset/batch_image.py (BaseImagesBatch, ImagesBatch,          *)
(* ImagesPILBatch): the parallel per-item actions and the assembly of      *)
(* their results into the batch components; and of the confusion matrix    *)
(* and the metrics of ClassificationMetrics as pinned by                   *)
(* classification_metrics_test.py.                                         *)
(*                                                                         *)
(* An array is modelled by its shape and the identity of its content:      *)
(*   [shape |-> <<rows, cols, ...>>, kind |-> "arr", item, pos, op, arg]   *)
(* item is the batch item it belongs to, pos the position of the value in  *)
(* the per-item result tuple (0 for a value that is not part of a tuple),  *)
(* op the transform that produced it and arg that transform's argument.    *)
(* A top-left crop keeps the content identity and shrinks the shape.       *)
(* Probabilities and random draws are in tenths: 5 stands for 0.5.         *)
(***************************************************************************)
EXTENDS Integers, Sequences, FiniteSets, TLC

VARIABLES
    cls,        \* class of the batch: "ImagesBatch" or "ImagesPILBatch"
    n,          \* number of items of the batch (len(self.indices))
    batch,      \* the components of the batch: [images |-> ..., labels |-> ...]
    pc,         \* "idle" | "running" | "done"
    act,        \* the action invoked and its parameters
    all_res,    \* per-item results collected by inbatch_parallel, in item order
    printed,    \* what assemble has printed
    raised,     \* the exception the action raised to its caller, or NoExc
    ret,        \* what the action returned: "self" or "none"
    mpc,        \* metrics: "new" | "built" | "raised"
    minput,     \* metrics: arguments of the ClassificationMetrics constructor
    confusion,  \* metrics: the confusion matrix, (B, C, C)
    mraised,    \* metrics: the exception of the constructor, or NoExc
    metric,     \* metrics: the name of the metric evaluated, or "none"
    mvalue      \* metrics: the metric per batch slot, as <<numerator, denominator>>

vars == <<cls, n, batch, pc, act, all_res, printed, raised, ret,
          mpc, minput, confusion, mraised, metric, mvalue>>
imgvars == <<cls, n, batch, pc, act, all_res, printed, raised, ret>>
metvars == <<mpc, minput, confusion, mraised, metric, mvalue>>

\* ------------------------------------------------------------------ bounds
MaxItems == 2      \* items in a batch: 1..MaxItems
MaxDim == 2        \* rows and columns of a per-item array: 1..MaxDim

\* Channel counts of a rank-3 image (grey, RGB).
Channels == {1, 3}

\* ------------------------------------------- actions and their arguments
\* components: [list |-> is it a list/tuple of names, names |-> the names]
Name(c) == [list |-> FALSE, names |-> <<c>>]
Names(cs) == [list |-> TRUE, names |-> cs]

\* A call of an action with its keyword arguments
CropCall(c, o, s) ==
    [name |-> "crop", components |-> c, origin |-> o, shape |-> s]
ScaleCall(c, o, x, f, ps) ==
    [name |-> "scale", components |-> c, origin |-> o, p |-> x, factor |-> f,
     preserve_shape |-> ps]
RotateCall(c, x, ps, a) ==
    [name |-> "rotate", components |-> c, p |-> x, preserve_shape |-> ps, angle |-> a]
FlipCall(c, x, y, m) ==
    [name |-> "flip", components |-> c, p |-> x, p_lr |-> y, mode |-> m]
InvertCall(c, x) ==
    [name |-> "invert", components |-> c, p_channel |-> x]
CustomCall(c) == [name |-> "custom", components |-> c]
NoAction == [name |-> "none", components |-> Name("images")]

Range(s) == {s[i] : i \in DOMAIN s}
Min(S) == CHOOSE x \in S : \A y \in S : x <= y

\* --------------------------------------------- results and exceptions
\* the result of a per-item call that has not returned yet
Pending == [kind |-> "pending"]

NoExc == [type |-> "none", msg |-> "", carries |-> <<>>]
Exc(t, m) == [type |-> t, msg |-> m, carries |-> <<>>]

\* a per-item call that raised: inbatch_parallel stores the exception object
Failure(i, t, m) == [kind |-> "exc", type |-> t, msg |-> m, item |-> i]
\* a per-item call that returned v (a value, or a tuple of values)
Value(v) == [kind |-> "val", val |-> v]

Arr(i, k, o, s) ==
    [shape |-> s, kind |-> "arr", item |-> i, pos |-> k, op |-> o, arg |-> <<>>]
\* a value numpy cannot convert to an array (asanyarray raises ValueError)
Bad(i, k) ==
    [shape |-> <<>>, kind |-> "bad", item |-> i, pos |-> k, op |-> "custom", arg |-> <<>>]

\* ------------------------------------------------------- the batch at rest
OrigImageShape == <<MaxDim, MaxDim, 3>>
OrigLabelShape == <<>>
OrigBatch(N) ==
    [images |-> [i \in 1..N |-> Arr(i, 0, "orig", OrigImageShape)],
     labels |-> [i \in 1..N |-> Arr(i, 0, "orig", OrigLabelShape)]]

\* Batch.get(ix, component)
get(b, ix, component) == b[component][ix]

\* setattr(self, component, value)
setattr(b, component, v) == [b EXCEPT ![component] = v]

\* ------------------------------------------------- shapes a transform yields
PlaneShapes == {<<r, c>> : r \in 1..MaxDim, c \in 1..MaxDim}
ImageShapes == PlaneShapes \cup
               {<<r, c, ch>> : r \in 1..MaxDim, c \in 1..MaxDim, ch \in Channels}
LabelShapes == {<<>>} \cup {<<l>> : l \in 1..MaxDim}

\* ------------------------------------------------------------ numpy.stack
StackShapeMsg == "all input arrays must have the same shape"
StackConvertMsg == "setting an array element with a sequence"
RaggedMsg == "the requested array has an inhomogeneous shape"

Ok(v) == [ok |-> TRUE, exc |-> NoExc, value |-> v]
Err(e) == [ok |-> FALSE, exc |-> e, value |-> <<>>]

ShapesOf(res) == {res[i].shape : i \in DOMAIN res}

\* np.stack(arrays): converts every element (asanyarray), requires one common
\* shape, and returns the elements along a new leading axis, in order.
np_stack(res) ==
    IF \E i \in DOMAIN res : res[i].kind = "bad"
    THEN Err(Exc("ValueError", StackConvertMsg))
    ELSE IF Cardinality(ShapesOf(res)) # 1
         THEN Err(Exc("ValueError", StackShapeMsg))
         ELSE Ok(res)

\* Mutant: the handler looks for a text numpy.stack never produces.
HasOtherText(message) == message = "shapes must match"

\* "must have the same shape" in message
HasSameShapeText(message) == message = StackShapeMsg

\* Python's ordering of tuples (used by min over an object array of shapes)
RECURSIVE TupleLE(_, _)
TupleLE(a, b) ==
    IF a = <<>> THEN TRUE
    ELSE IF b = <<>> THEN FALSE
    ELSE IF a[1] < b[1] THEN TRUE
    ELSE IF a[1] > b[1] THEN FALSE
    ELSE TupleLE(Tail(a), Tail(b))

\* Mutant: the largest extents instead of the smallest.
min_shape_max(res) ==
    LET S == ShapesOf(res)
        ranks == {Len(s) : s \in S}
    IN  IF Cardinality(ranks) = 1
        THEN LET r == CHOOSE x \in ranks : TRUE
             IN  {Ok([d \in 1..r |-> CHOOSE x \in {s[d] : s \in S} :
                                        \A y \in {s[d] : s \in S} : y <= x])}
        ELSE {Err(Exc("ValueError", RaggedMsg))}

\* np.array([x.shape for x in all_res]).min(axis=0): the possible outcomes.
\* Shapes of one rank give an (N, rank) integer array and its column minima.
\* Shapes of different ranks are a ragged list: numpy >= 1.24 raises
\* ValueError, older versions build an object array of tuples whose minimum
\* is the smallest tuple.
min_shape(res) ==
    LET S == ShapesOf(res)
        ranks == {Len(s) : s \in S}
    IN  IF Cardinality(ranks) = 1
        THEN LET r == CHOOSE x \in ranks : TRUE
             IN  {Ok([d \in 1..r |-> Min({s[d] : s \in S})])}
        ELSE {Err(Exc("ValueError", RaggedMsg)),
              Ok(CHOOSE s \in S : \A t \in S : TupleLE(s, t))}

\* arr[:rows, :cols].copy(): the top-left crop; the content identity is kept
crop_top_left(arr, rows, cols) ==
    [arr EXCEPT !.shape = <<Min({arr.shape[1], rows}), Min({arr.shape[2], cols})>>
                          \o SubSeq(arr.shape, 3, Len(arr.shape))]

\* The except branch of assemble_component for the shape-mismatch message:
\* crop every item to min_shape[0] x min_shape[1] and stack again.
recover(res) ==
    {IF ~m.ok THEN Err(m.exc)
     ELSE IF Len(m.value) < 2
          THEN Err(Exc("IndexError", "index 1 is out of bounds"))
     ELSE IF \E i \in DOMAIN res : Len(res[i].shape) < 2
          THEN Err(Exc("IndexError", "too many indices for array"))
     ELSE np_stack([i \in DOMAIN res |-> crop_top_left(res[i], m.value[1], m.value[2])])
     : m \in min_shape(res)}

UnboundMsg == "local variable referenced before assignment"

\* ImagesBatch.assemble_component: the possible outcomes, each the batch
\* afterwards and the exception that left the method (NoExc if none).
assemble_component(b, res, component) ==
    LET s == np_stack(res)
    IN  IF s.ok
        THEN {[batch |-> setattr(b, component, s.value), exc |-> NoExc]}
        ELSE IF HasSameShapeText(s.exc.msg)
             THEN {IF o.ok
                   THEN [batch |-> setattr(b, component, o.value), exc |-> NoExc]
                   ELSE [batch |-> b, exc |-> o.exc] : o \in recover(res)}
             \* any other ValueError is dropped by the except clause and
             \* new_images is read before it was ever bound
             ELSE {[batch |-> b, exc |-> Exc("UnboundLocalError", UnboundMsg)]}

\* any_action_failed(all_res), Batch.get_errors(all_res)
any_action_failed(res) == \E i \in DOMAIN res : res[i].kind = "exc"
get_errors(res) == SelectSeq(res, LAMBDA r : r.kind = "exc")

\* components = kwargs.get('components', 'images'); a list or tuple of names
\* is matched with the transposed results (zip(*all_res)), a single name with
\* the results as they are.
IsList(components) == components.list
component_list(components) == components.names
\* Mutant: the transposed results are paired with the names back to front.
result_columns_reversed(components, res) ==
    IF IsList(components)
    THEN [k \in 1..Len(res[1].val) |->
             [i \in DOMAIN res |-> res[i].val[Len(res[1].val) + 1 - k]]]
    ELSE <<[i \in DOMAIN res |-> res[i].val]>>

result_columns(components, res) ==
    IF IsList(components)
    THEN [k \in 1..Min({Len(res[i].val) : i \in DOMAIN res}) |->
             [i \in DOMAIN res |-> res[i].val[k]]]
    ELSE <<[i \in DOMAIN res |-> res[i].val]>>

\* for component, res in zip(components, all_res): self.assemble_component(...)
\* from the k-th pair on; stops at the first exception.
RECURSIVE assemble_loop(_, _, _, _)
assemble_loop(b, comps, cols, k) ==
    IF k > Min({Len(comps), Len(cols)})
    THEN {[batch |-> b, exc |-> NoExc]}
    ELSE UNION {IF o.exc # NoExc THEN {o}
                ELSE assemble_loop(o.batch, comps, cols, k + 1)
                : o \in assemble_component(b, cols[k], comps[k])}

AssembleMsg == "Could not assemble the batch"

\* ------------------------------------------------ the per-item functions
\* Probabilities a caller passes (tenths): -0.1, 0, 0.5, 1, 1.1
Probabilities == {-1, 0, 5, 10, 11}
\* Values of np.random.random() and np.random.uniform(), in [0, 1) (tenths)
Draws == {0, 5, 9}

ProbabilityMsg == "probability must be in [0,1]"
CropOriginMsg == "origin must be either in ['top_left', 'center', 'random'] or be a tuple"
ScaleOriginMsg == "origin must be either in ['top_left', 'center'] or be a tuple"
ShapeMsg == "shape must be specified"
FactorMsg == "factor must be greater than 0"
ModeMsg == "`mode` must be one of 'lr', 'ud' and 'all'"

\* isinstance(origin, str): an origin is one of these strings or the tuple (0, 0)
OriginTuple == "(0, 0)"
IsStr(origin) == origin # OriginTuple

\* What the image backend (_crop_image, _resize_image, _rotate_image) returns
\* for item ix: an image of the rank and channels of the original and of any
\* extent, or it raises.
Reshaped(b, components, ix, o) ==
    LET image == get(b, ix, components.names[1])
    IN  {Value([image EXCEPT !.op = o, !.shape = <<r, c>> \o SubSeq(image.shape, 3, Len(image.shape))])
            : r \in 1..MaxDim, c \in 1..MaxDim}
        \cup {Failure(ix, "Exception", "transform failed")}
\* ... and a backend call that keeps the shape (_flip_image, _invert, _preserve_shape)
SameShape(b, components, ix, o, a) ==
    LET image == get(b, ix, components.names[1])
    IN  {Value([image EXCEPT !.op = o, !.arg = a])}
Unchanged(b, components, ix) == {Value(get(b, ix, components.names[1]))}

\* BaseImagesBatch.crop, the call for item ix
crop(b, a, ix) ==
    IF IsStr(a.origin) /\ a.origin \notin {"top_left", "center", "random"}
    THEN {Failure(ix, "ValueError", CropOriginMsg)}
    ELSE IF a.shape = "None"
    THEN {Failure(ix, "ValueError", ShapeMsg)}
    ELSE Reshaped(b, a.components, ix, "crop")

\* BaseImagesBatch.scale, the call for item ix
scale(b, a, ix) ==
    IF a.p > 10 \/ a.p < 0
    THEN {Failure(ix, "ValueError", ProbabilityMsg)}
    ELSE IF a.factor = "None"
    THEN {Failure(ix, "TypeError", "'<=' not supported between NoneType and int")}
    ELSE IF a.factor = "nonpositive"
    THEN {Failure(ix, "ValueError", FactorMsg)}
    ELSE IF IsStr(a.origin) /\ a.origin \notin {"top_left", "center"}
    THEN {Failure(ix, "ValueError", ScaleOriginMsg)}
    ELSE UNION {IF u < a.p
                THEN IF a.preserve_shape
                     THEN SameShape(b, a.components, ix, "scale", <<>>)
                          \cup {Failure(ix, "Exception", "transform failed")}
                     ELSE Reshaped(b, a.components, ix, "scale")
                \* return rescaled_image: never bound on this path
                ELSE {Failure(ix, "UnboundLocalError", UnboundMsg)}
                : u \in Draws}

\* An angle argument: None, a number, or a (min, max) range
NoAngle == [kind |-> "None", lo |-> 0, hi |-> 0]
Number(x) == [kind |-> "number", lo |-> x, hi |-> x]
AngleRange(lo, hi) == [kind |-> "range", lo |-> lo, hi |-> hi]
DefaultAngle == AngleRange(-45, 45)
\* Python truth value of an angle argument: None and 0 are false
Truthy(angle) == ~(angle.kind = "None" \/ (angle.kind = "number" /\ angle.lo = 0))
\* np.random.uniform(lo, hi): values of [lo, hi)
uniform(lo, hi) == {lo, (lo + hi) \div 2}

\* BaseImagesBatch.rotate, the call for item ix
rotate(b, a, ix) ==
    IF a.p > 10 \/ a.p < 0
    THEN {Failure(ix, "ValueError", ProbabilityMsg)}
    ELSE UNION {IF u < a.p
                THEN LET angle == IF Truthy(a.angle) THEN a.angle ELSE DefaultAngle
                         angles == IF angle.kind # "number"
                                   THEN uniform(angle.lo, angle.hi)
                                   ELSE {angle.lo}
                     IN  UNION {IF a.preserve_shape
                                THEN SameShape(b, a.components, ix, "rotate", <<x>>)
                                ELSE {[r EXCEPT !.val.arg = <<x>>]
                                      : r \in {r \in Reshaped(b, a.components, ix, "rotate")
                                               : r.kind = "val"}}
                                     \cup {Failure(ix, "Exception", "transform failed")}
                                : x \in angles}
                ELSE Unchanged(b, a.components, ix)
                : u \in Draws}

\* Mutant: p_lr is not checked.
flip_p_lr_unchecked(b, a, ix) ==
    IF a.p > 10 \/ a.p < 0
    THEN {Failure(ix, "ValueError", ProbabilityMsg)}
    ELSE IF a.mode \notin {"lr", "ud", "all"}
    THEN {Failure(ix, "ValueError", ModeMsg)}
    ELSE UNION {IF u < a.p
                THEN IF a.mode = "all"
                     THEN UNION {SameShape(b, a.components, ix,
                                           IF v < a.p_lr THEN "lr" ELSE "ud", <<>>)
                                 : v \in Draws}
                     ELSE SameShape(b, a.components, ix, a.mode, <<>>)
                ELSE Unchanged(b, a.components, ix)
                : u \in Draws}

\* BaseImagesBatch.flip, the call for item ix
flip(b, a, ix) ==
    IF a.p > 10 \/ a.p < 0 \/ a.p_lr < 0 \/ a.p_lr > 10
    THEN {Failure(ix, "ValueError", ProbabilityMsg)}
    ELSE IF a.mode \notin {"lr", "ud", "all"}
    THEN {Failure(ix, "ValueError", ModeMsg)}
    ELSE UNION {IF u < a.p
                THEN IF a.mode = "all"
                     THEN UNION {SameShape(b, a.components, ix,
                                           IF v < a.p_lr THEN "lr" ELSE "ud", <<>>)
                                 : v \in Draws}
                     ELSE SameShape(b, a.components, ix, a.mode, <<>>)
                ELSE Unchanged(b, a.components, ix)
                : u \in Draws}

\* BaseImagesBatch.invert, the call for item ix.  p_channel is the argument
\* after np.asarray(p_channel).reshape(-1): a scalar is a vector of length 1.
\* The channels chosen are a vector of 0/1 flags, one per channel of the image.
invert(b, a, ix) ==
    IF \E c \in DOMAIN a.p_channel : a.p_channel[c] > 10 \/ a.p_channel[c] < 0
    THEN {Failure(ix, "ValueError", ProbabilityMsg)}
    ELSE LET image == get(b, ix, a.components.names[1])
             nch == image.shape[Len(image.shape)]
             chosen == IF Len(a.p_channel) = 1
                       THEN {IF u < a.p_channel[1] THEN [c \in 1..nch |-> 1]
                                                   ELSE [c \in 1..nch |-> 0]
                             : u \in Draws}
                       ELSE {[c \in 1..Len(a.p_channel) |->
                                 IF us[c] > a.p_channel[c] THEN 1 ELSE 0]
                             : us \in [1..Len(a.p_channel) -> Draws]}
         IN  UNION {IF \E c \in DOMAIN channels : channels[c] = 1
                    THEN SameShape(b, a.components, ix, "invert", channels)
                    ELSE Unchanged(b, a.components, ix)
                    : channels \in chosen}

\* Any other action of a subclass decorated with
\* inbatch_parallel(post='assemble'): the call for item ix returns one value
\* for a single component, a tuple of one value per name for a list of
\* components, or raises.
\* A single value is of any of the shapes; the values of a tuple are of a
\* smaller variety (planes of different extents and one RGB image; scalar and
\* vector labels).
TupleImageShapes == {<<1, 2>>, <<2, 1>>, <<2, 2>>, <<2, 2, 3>>}
TupleLabelShapes == {<<>>, <<1>>, <<2>>}
ValuesOf(c, ix, k) ==
    LET shapes == IF c = "images"
                  THEN IF k = 0 THEN ImageShapes ELSE TupleImageShapes
                  ELSE IF k = 0 THEN LabelShapes ELSE TupleLabelShapes
    IN  {Arr(ix, k, "custom", s) : s \in shapes} \cup {Bad(ix, k)}
custom(b, a, ix) ==
    {Failure(ix, "Exception", "transform failed")} \cup
    (IF IsList(a.components)
     THEN {Value(t) : t \in {t \in [1..Len(a.components.names) ->
                                      UNION {ValuesOf(a.components.names[k], ix, k)
                                             : k \in 1..Len(a.components.names)}]
                             : \A k \in DOMAIN t : t[k] \in ValuesOf(a.components.names[k], ix, k)}}
     ELSE {Value(v) : v \in ValuesOf(a.components.names[1], ix, 0)})

\* The decorated method: the body run by inbatch_parallel for item ix
per_item(b, a, ix) ==
    CASE a.name = "crop" -> crop(b, a, ix)
      [] a.name = "scale" -> scale(b, a, ix)
      [] a.name = "rotate" -> rotate(b, a, ix)
      [] a.name = "flip" -> flip(b, a, ix)
      [] a.name = "invert" -> invert(b, a, ix)
      [] a.name = "custom" -> custom(b, a, ix)

\* ------------------------------------------------------ the state machine
Classes == {"ImagesBatch", "ImagesPILBatch"}

NoMetrics == [fmt |-> "none"]

Init ==
    /\ cls \in Classes
    /\ n \in 1..MaxItems
    /\ batch = OrigBatch(n)
    /\ pc = "idle"
    /\ act = NoAction
    /\ all_res = [i \in 1..n |-> Pending]
    /\ printed = <<>>
    /\ raised = NoExc
    /\ ret = "none"
    /\ mpc = "off"
    /\ minput = NoMetrics
    /\ confusion = <<>>
    /\ mraised = NoExc
    /\ metric = "none"
    /\ mvalue = <<>>

\* The caller invokes an action: inbatch_parallel(init='indices') submits one
\* call of the method body per item of the batch.
Invoke(a) ==
    /\ pc = "idle"
    /\ act' = a
    /\ pc' = "running"
    /\ UNCHANGED <<cls, n, batch, all_res, printed, raised, ret>>
    /\ UNCHANGED metvars

InvokeCrop ==
    \E origin \in {"top_left", "center", "random", "bogus", OriginTuple},
       shape \in {"None", "given"} :
        Invoke(CropCall(Name("images"), origin, shape))

InvokeScale ==
    \E p \in Probabilities, factor \in {"None", "nonpositive", "positive"},
       preserve_shape \in BOOLEAN, origin \in {"center", "bogus"} :
        Invoke(ScaleCall(Name("images"), origin, p, factor, preserve_shape))

InvokeRotate ==
    \E p \in Probabilities, preserve_shape \in BOOLEAN,
       angle \in {NoAngle, Number(0), Number(30), AngleRange(10, 20)} :
        Invoke(RotateCall(Name("images"), p, preserve_shape, angle))

InvokeFlip ==
    \E p \in Probabilities, p_lr \in {-1, 5, 11}, mode \in {"lr", "ud", "all", "bogus"} :
        Invoke(FlipCall(Name("images"), p, p_lr, mode))

InvokeInvert ==
    \E p_channel \in {<<p>> : p \in Probabilities}
                     \cup {<<0, 10, 5>>, <<10, 10, 10>>, <<0, 11, 0>>} :
        Invoke(InvertCall(Name("images"), p_channel))

InvokeCustom ==
    \E components \in {Name("images"), Name("labels"), Names(<<"images", "labels">>)} :
        Invoke(CustomCall(components))

\* One per-item call runs to its end (in any order, possibly concurrently);
\* an exception it raises is stored as its result.
ItemCall(ix) ==
    /\ pc = "running"
    /\ all_res[ix].kind = "pending"
    /\ \E r \in per_item(batch, act, ix) : all_res' = [all_res EXCEPT ![ix] = r]
    /\ UNCHANGED <<cls, n, batch, pc, act, printed, raised, ret>>
    /\ UNCHANGED metvars

AllCollected == \A i \in 1..n : all_res[i].kind # "pending"

\* Mutant: the results that did not fail are stored before the error is raised.
assemble_failed_after_store ==
    /\ printed' = <<[what |-> "errors", errors |-> get_errors(all_res)],
                    [what |-> "traceback", errors |-> <<get_errors(all_res)[1]>>]>>
    /\ raised' = Exc("RuntimeError", AssembleMsg)
    /\ ret' = "none"
    /\ batch' = setattr(batch, component_list(act.components)[1],
                        SelectSeq(all_res, LAMBDA r : r.kind # "exc"))

\* Mutant: only the first captured failure is printed.
assemble_failed_first_only ==
    /\ printed' = <<[what |-> "errors", errors |-> <<get_errors(all_res)[1]>>],
                    [what |-> "traceback", errors |-> <<get_errors(all_res)[1]>>]>>
    /\ raised' = Exc("RuntimeError", AssembleMsg)
    /\ ret' = "none"
    /\ UNCHANGED batch

\* if any_action_failed(all_res): print the errors, print the traceback of the
\* first, raise RuntimeError
assemble_failed ==
    /\ printed' = <<[what |-> "errors", errors |-> get_errors(all_res)],
                    [what |-> "traceback", errors |-> <<get_errors(all_res)[1]>>]>>
    /\ raised' = Exc("RuntimeError", AssembleMsg)
    /\ ret' = "none"
    /\ UNCHANGED batch

\* ImagesBatch.assemble, the post function of every action
Assemble ==
    /\ pc = "running"
    /\ cls = "ImagesBatch"
    /\ AllCollected
    /\ IF any_action_failed(all_res)
       THEN assemble_failed
       ELSE \E o \in assemble_loop(batch, component_list(act.components),
                                   result_columns(act.components, all_res), 1) :
                /\ batch' = o.batch
                /\ raised' = o.exc
                /\ ret' = IF o.exc = NoExc THEN "self" ELSE "none"
                /\ UNCHANGED printed
    /\ pc' = "done"
    /\ UNCHANGED <<cls, n, act, all_res>>
    /\ UNCHANGED metvars

\* np.array(res, dtype='object'): the items as one array of objects
np_array_object(res) == res

\* for component, res in zip(components, all_res): setattr(self, component, ...)
RECURSIVE assemble_pil_loop(_, _, _, _)
assemble_pil_loop(b, comps, cols, k) ==
    IF k > Min({Len(comps), Len(cols)})
    THEN b
    ELSE assemble_pil_loop(setattr(b, comps[k], np_array_object(cols[k])), comps, cols, k + 1)

\* ImagesPILBatch.assemble
AssemblePIL ==
    /\ pc = "running"
    /\ cls = "ImagesPILBatch"
    /\ AllCollected
    /\ IF any_action_failed(all_res)
       THEN assemble_failed
       ELSE /\ batch' = assemble_pil_loop(batch, component_list(act.components),
                                          result_columns(act.components, all_res), 1)
            /\ raised' = NoExc
            /\ ret' = "self"
            /\ UNCHANGED printed
    /\ pc' = "done"
    /\ UNCHANGED <<cls, n, act, all_res>>
    /\ UNCHANGED metvars

Next ==
    \/ InvokeCrop
    \/ InvokeScale
    \/ InvokeRotate
    \/ InvokeFlip
    \/ InvokeInvert
    \/ InvokeCustom
    \/ \E ix \in 1..n : ItemCall(ix)
    \/ Assemble
    \/ AssemblePIL

Spec == Init /\ [][Next]_vars

\* ------------------------------------------------------------- properties
Done == pc = "done"
Failed == any_action_failed(all_res)
names == component_list(act.components)
\* the results that went to the k-th named component
Column(k) ==
    [i \in 1..n |-> IF IsList(act.components) THEN all_res[i].val[k] ELSE all_res[i].val]

\* all items are arrays of one shape
Uniform(col) ==
    /\ \A i \in DOMAIN col : col[i].kind = "arr"
    /\ \A i, j \in DOMAIN col : col[i].shape = col[j].shape
\* all items are arrays that differ in their row and/or column count only
PlaneOnly(col) ==
    /\ \A i \in DOMAIN col : col[i].kind = "arr" /\ Len(col[i].shape) >= 2
    /\ \A i, j \in DOMAIN col :
          /\ Len(col[i].shape) = Len(col[j].shape)
          /\ \A d \in 3..Len(col[i].shape) : col[i].shape[d] = col[j].shape[d]
    /\ \E i, j \in DOMAIN col : col[i].shape # col[j].shape
\* the first stacking attempt fails with the shape-mismatch condition
Mismatch(col) ==
    /\ \A i \in DOMAIN col : col[i].kind = "arr"
    /\ \E i, j \in DOMAIN col : col[i].shape # col[j].shape
\* each item cropped to the smallest row and column count of the items
Cropped(col) ==
    [i \in DOMAIN col |->
        [col[i] EXCEPT !.shape =
            <<Min({col[j].shape[1] : j \in DOMAIN col}),
              Min({col[j].shape[2] : j \in DOMAIN col})>>
            \o SubSeq(col[i].shape, 3, Len(col[i].shape))]]

\* C1: if at least one per-item result is a captured failure, assemble (of
\* either class) raises RuntimeError and every component of the batch holds
\* the value it had before the call.
C1_FailureRaisesBatchUntouched ==
    (Done /\ Failed) =>
        /\ raised.type = "RuntimeError"
        /\ ret = "none"
        /\ batch = OrigBatch(n)

C1_Witness ==
    /\ Done /\ Failed /\ n >= 2
    /\ \E i \in 1..n : all_res[i].kind = "val"
    /\ raised.type = "RuntimeError"

\* C2: without a failure and with per-item values of one shape per component,
\* ImagesBatch.assemble replaces every named component by the N per-item
\* values in item order, the k-th entry of each tuple going to the k-th name,
\* leaves the other components alone and returns the batch.
C2_StackInstallsInOrder ==
    (Done /\ cls = "ImagesBatch" /\ ~Failed
          /\ \A k \in DOMAIN names : Uniform(Column(k))) =>
        /\ raised = NoExc
        /\ ret = "self"
        /\ \A k \in DOMAIN names :
              /\ Len(batch[names[k]]) = n
              /\ \A i \in 1..n :
                    batch[names[k]][i] = (IF IsList(act.components)
                                          THEN all_res[i].val[k] ELSE all_res[i].val)
        /\ \A c \in {"images", "labels"} \ Range(names) : batch[c] = OrigBatch(n)[c]

C2_Witness ==
    /\ Done /\ cls = "ImagesBatch" /\ ~Failed /\ n >= 2
    /\ IsList(act.components) /\ Len(names) = 2
    /\ \A k \in DOMAIN names : Uniform(Column(k))
    /\ ret = "self"
    /\ batch.labels[2].pos = 2

\* C3: when the per-item outputs of a component differ in row and/or column
\* count only, assembly succeeds and the component holds, for every item, the
\* top-left crop of its output to the smallest row count and the smallest
\* column count of the items.
C3_CropToMinimum ==
    (Done /\ cls = "ImagesBatch" /\ ~Failed
          /\ \A k \in DOMAIN names : Uniform(Column(k)) \/ PlaneOnly(Column(k))) =>
        /\ raised = NoExc
        /\ ret = "self"
        /\ \A k \in DOMAIN names :
              PlaneOnly(Column(k)) => batch[names[k]] = Cropped(Column(k))

C3_Witness ==
    /\ Done /\ cls = "ImagesBatch" /\ ~Failed
    /\ \E k \in DOMAIN names :
          /\ PlaneOnly(Column(k))
          /\ \E i, j \in 1..n : /\ Column(k)[i].shape[1] < Column(k)[j].shape[1]
                                /\ Column(k)[i].shape[2] > Column(k)[j].shape[2]
          /\ batch[names[k]] = Cropped(Column(k))

\* C4 as stated: whenever the first stacking attempt fails because the
\* per-item shapes disagree, the crop-and-retry succeeds and the component is
\* installed.
C4_RetryAlwaysSucceeds ==
    (Done /\ cls = "ImagesBatch" /\ ~Failed /\ ~IsList(act.components)
          /\ Mismatch(Column(1))) =>
        raised = NoExc

\* C4 (amended): after a shape mismatch the crop-and-retry succeeds exactly
\* when the items have one rank of at least 2 and agree in every dimension
\* after rows and columns; otherwise (different channel counts, different
\* ranks, rank below 2) the recovery raises ValueError or IndexError, which
\* leaves assemble, and the component is not assigned.
C4_RetrySucceedsIffPlaneOnly ==
    (Done /\ cls = "ImagesBatch" /\ ~Failed) =>
        \A k \in DOMAIN names :
            ((\A j \in 1..(k - 1) : Uniform(Column(j)) \/ PlaneOnly(Column(j)))
              /\ Mismatch(Column(k))) =>
                IF PlaneOnly(Column(k))
                THEN batch[names[k]] = Cropped(Column(k))
                ELSE /\ raised.type \in {"ValueError", "IndexError"}
                     /\ ret = "none"
                     /\ batch[names[k]] = OrigBatch(n)[names[k]]

C4_Witness ==
    /\ Done /\ cls = "ImagesBatch" /\ ~Failed /\ ~IsList(act.components)
    /\ Mismatch(Column(1)) /\ ~PlaneOnly(Column(1))
    /\ \A i \in 1..n : Len(Column(1)[i].shape) = 3
    /\ raised.type = "ValueError"

\* C5 as stated: a stacking failure other than the shape mismatch reaches the
\* caller of assemble unchanged, and the component is not assigned.
C5_OtherFailurePropagatesUnchanged ==
    (Done /\ cls = "ImagesBatch" /\ ~Failed /\ ~IsList(act.components)
          /\ ~np_stack(Column(1)).ok
          /\ ~HasSameShapeText(np_stack(Column(1)).exc.msg)) =>
        /\ raised = np_stack(Column(1)).exc
        /\ batch = OrigBatch(n)

\* C6 as stated: the error assemble raises carries all captured failures.
C6_ErrorCarriesAllFailures ==
    (Done /\ Failed) => raised.carries = get_errors(all_res)

\* C6 (amended): when per-item calls failed, assemble prints the list of all
\* captured failures and the traceback of the first of them, and raises a
\* RuntimeError with the fixed text "Could not assemble the batch" that
\* carries none of the captured failures.
C6_FailuresPrintedNotCarried ==
    (Done /\ Failed) =>
        /\ Len(printed) = 2
        /\ printed[1].what = "errors"
        /\ printed[1].errors = SelectSeq(all_res, LAMBDA r : r.kind = "exc")
        /\ printed[2].what = "traceback"
        /\ printed[2].errors = <<printed[1].errors[1]>>
        /\ raised = [type |-> "RuntimeError", msg |-> AssembleMsg, carries |-> <<>>]

C6_Witness ==
    /\ Done /\ n >= 2
    /\ \A i \in 1..n : all_res[i].kind = "exc"
    /\ all_res[1].type # all_res[2].type
    /\ Len(printed[1].errors) = n
    /\ raised.carries = <<>>

\* The parameters C7 names as invalid
InvalidParameter(a) ==
    CASE a.name = "crop" ->
            a.origin \notin {"top_left", "center", "random", OriginTuple} \/ a.shape = "None"
      [] a.name = "scale" ->
            a.p < 0 \/ a.p > 10 \/ a.factor = "nonpositive"
            \/ a.origin \notin {"top_left", "center", OriginTuple}
      [] a.name = "rotate" -> a.p < 0 \/ a.p > 10
      [] a.name = "flip" ->
            a.p < 0 \/ a.p > 10 \/ a.p_lr < 0 \/ a.p_lr > 10
            \/ a.mode \notin {"lr", "ud", "all"}
      [] a.name = "invert" -> \E c \in DOMAIN a.p_channel : a.p_channel[c] < 0 \/ a.p_channel[c] > 10
      [] OTHER -> FALSE

\* C7 as stated: an invalid parameter is answered with a ValueError to the
\* caller before any per-item call has started.
C7_RejectedBeforeItemCalls ==
    (Done /\ InvalidParameter(act)) =>
        /\ raised.type = "ValueError"
        /\ \A i \in 1..n : all_res[i].kind = "pending"

\* C7 (amended): the parameters are checked inside every per-item call: with
\* an invalid parameter each of the N calls raises (ValueError, or scale's
\* TypeError for factor=None met before an invalid origin), every failure is
\* captured as that item's result, and the action ends with assemble's
\* RuntimeError and the batch unchanged; the caller never gets the ValueError.
C7_RejectedInsideEveryItemCall ==
    InvalidParameter(act) =>
        /\ \A i \in 1..n :
              \/ all_res[i].kind = "pending"
              \/ /\ all_res[i].kind = "exc"
                 /\ \/ all_res[i].type = "ValueError"
                    \/ (act.name = "scale" /\ act.factor = "None"
                        /\ all_res[i].type = "TypeError")
        /\ Done => /\ \A i \in 1..n : all_res[i].kind = "exc"
                   /\ raised.type = "RuntimeError"
                   /\ batch = OrigBatch(n)

C7_Witness ==
    /\ Done /\ InvalidParameter(act) /\ n >= 2
    /\ act.name = "flip" /\ act.p = 10 /\ act.mode = "lr" /\ act.p_lr = 11
    /\ \A i \in 1..n : all_res[i].kind = "exc" /\ all_res[i].type = "ValueError"
    /\ raised.type = "RuntimeError"

\* C8 as stated: an assemble call that raises leaves every component of the
\* batch as it was, also when a later component fails to stack after an
\* earlier one was installed.
C8_RaiseLeavesBatchUntouched ==
    (Done /\ raised # NoExc) => batch = OrigBatch(n)

\* =========================================================== metrics side
\* ClassificationMetrics(y_true, y_pred, fmt, axis, num_classes) as the tests
\* of classification_metrics_test.py pin it.  An array is its shape and its
\* elements in row-major order; axis is <<>> for None and <<k>> for axis k;
\* probabilities are in tenths.
MaxSamples == 2    \* samples per batch slot: 1..MaxSamples

NdArray(s, f) == [shape |-> s, flat |-> f]
MetricsCall(f, t, q, ax, c) ==
    [fmt |-> f, y_true |-> t, y_pred |-> q, axis |-> ax, num_classes |-> c]

RECURSIVE Prod(_)
Prod(s) == IF s = <<>> THEN 1 ELSE s[1] * Prod(Tail(s))

\* Mutant: every input is one implicit batch slot.
BatchSizeOne(a) == 1
\* rank 2 and above: axis 0 is the batch axis and the further axes hold the
\* samples of one slot; rank 0 and 1: one implicit batch slot
BatchSize(a) == IF Len(a.shape) >= 2 THEN a.shape[1] ELSE 1
SlotSize(a) == Len(a.flat) \div BatchSize(a)
\* the samples of batch slot b (1-based)
Slot(a, b) == SubSeq(a.flat, (b - 1) * SlotSize(a) + 1, b * SlotSize(a))

\* np.argmax of one row of scores: the (0-based) index of the first maximum
argmax(row) ==
    (CHOOSE k \in DOMAIN row :
        /\ \A j \in DOMAIN row : row[j] <= row[k]
        /\ \A j \in 1..(k - 1) : row[j] < row[k]) - 1

\* y_pred.argmax(axis=1) of a (samples, classes) array of scores
argmax_axis1(q) ==
    NdArray(<<q.shape[1]>>,
            [x \in 1..q.shape[1] |->
                argmax(SubSeq(q.flat, (x - 1) * q.shape[2] + 1, x * q.shape[2]))])

\* two classes, no axis: a score is the probability of class 1
threshold(q) == NdArray(q.shape, [x \in DOMAIN q.flat |-> IF q.flat[x] > 5 THEN 1 ELSE 0])

ShapeMsgM == "y_true and y_pred must have compatible shapes"
AxisMsg == "axis cannot be None for multiclass case"

\* Mutant: a missing axis is accepted for any number of classes.
to_labels_axis_optional(inp) ==
    IF inp.fmt = "labels"
    THEN IF inp.y_true.shape = inp.y_pred.shape
         THEN Ok(inp.y_pred) ELSE Err(Exc("ValueError", ShapeMsgM))
    ELSE IF inp.axis = <<>>
         THEN IF inp.y_true.shape = inp.y_pred.shape
              THEN Ok(threshold(inp.y_pred)) ELSE Err(Exc("ValueError", ShapeMsgM))
         ELSE IF Len(inp.y_pred.shape) = 2 /\ inp.axis = <<1>>
                 /\ inp.y_true.shape = <<inp.y_pred.shape[1]>>
              THEN Ok(argmax_axis1(inp.y_pred)) ELSE Err(Exc("ValueError", ShapeMsgM))

\* Format normalization: the predicted labels, or the ValueError
to_labels(inp) ==
    IF inp.fmt = "labels"
    THEN IF inp.y_true.shape = inp.y_pred.shape
         THEN Ok(inp.y_pred) ELSE Err(Exc("ValueError", ShapeMsgM))
    ELSE IF inp.axis = <<>>
         THEN IF inp.num_classes > 2
              THEN Err(Exc("ValueError", AxisMsg))
              ELSE IF inp.y_true.shape = inp.y_pred.shape
                   THEN Ok(threshold(inp.y_pred)) ELSE Err(Exc("ValueError", ShapeMsgM))
         ELSE IF Len(inp.y_pred.shape) = 2 /\ inp.axis = <<1>>
                 /\ inp.y_true.shape = <<inp.y_pred.shape[1]>>
              THEN Ok(argmax_axis1(inp.y_pred)) ELSE Err(Exc("ValueError", ShapeMsgM))

\* The confusion matrix (B, C, C) of true labels t and predicted labels q:
\* entry [b][i][j] counts the samples of slot b predicted as class i-1 whose
\* true class is j-1.
confusion_matrix(t, q, C) ==
    [b \in 1..BatchSize(t) |->
        [i \in 1..C |->
            [j \in 1..C |->
                Cardinality({x \in 1..SlotSize(t) :
                                Slot(q, b)[x] = i - 1 /\ Slot(t, b)[x] = j - 1})]]]

\* The constructor: build the confusion matrix or raise
build(inp) ==
    LET q == to_labels(inp)
    IN  IF q.ok THEN Ok(confusion_matrix(inp.y_true, q.value, inp.num_classes))
        ELSE Err(q.exc)

\* ------------------------------------------------ inputs of the constructor
Vectors(vals) == UNION {[1..l -> vals] : l \in 1..MaxSamples}
\* vectors of samples and batches of two vectors
ArraysOver(vals) ==
    {NdArray(<<Len(f)>>, f) : f \in Vectors(vals)}
    \cup UNION {{NdArray(<<2, l>>, f) : f \in [1..(2 * l) -> vals]} : l \in 1..MaxSamples}
VectorArrays(vals) == {NdArray(<<Len(f)>>, f) : f \in Vectors(vals)}
Scores == {2, 8}

InitMetrics ==
    /\ cls = "ImagesBatch"
    /\ n = 1
    /\ batch = OrigBatch(1)
    /\ pc = "off"
    /\ act = NoAction
    /\ all_res = <<Pending>>
    /\ printed = <<>>
    /\ raised = NoExc
    /\ ret = "none"
    /\ mpc = "new"
    /\ minput = NoMetrics
    /\ confusion = <<>>
    /\ mraised = NoExc
    /\ metric = "none"
    /\ mvalue = <<>>

Construct(inp) ==
    /\ mpc = "new"
    /\ minput' = inp
    /\ LET r == build(inp)
       IN  /\ confusion' = r.value
           /\ mraised' = r.exc
           /\ mpc' = IF r.ok THEN "built" ELSE "raised"
    /\ UNCHANGED <<imgvars, metric, mvalue>>

\* cm(y_true, y_pred, fmt='labels', num_classes=C)
ConstructLabels ==
    /\ mpc = "new"
    /\ \/ \E t \in ArraysOver({0, 1}), q \in ArraysOver({0, 1}) :
             Construct(MetricsCall("labels", t, q, <<>>, 2))
       \/ \E t \in VectorArrays({0, 1, 2}), q \in VectorArrays({0, 1, 2}) :
             Construct(MetricsCall("labels", t, q, <<>>, 3))

\* cm(y_true, y_pred, fmt='proba', num_classes=C), axis left at None
ConstructProba ==
    /\ mpc = "new"
    /\ \/ \E t \in ArraysOver({0, 1}), q \in ArraysOver(Scores) :
             Construct(MetricsCall("proba", t, q, <<>>, 2))
       \/ \E t \in VectorArrays({0, 1, 2}), q \in VectorArrays(Scores) :
             Construct(MetricsCall("proba", t, q, <<>>, 3))

\* cm(y_true, y_pred, fmt='proba', axis=1, num_classes=3): one row of scores
\* per sample
ConstructProbaAxis ==
    /\ mpc = "new"
    /\ \E t \in VectorArrays({0, 1, 2}), l \in 1..MaxSamples :
           \E f \in [1..(3 * l) -> Scores] :
               Construct(MetricsCall("proba", t, NdArray(<<l, 3>>, f), <<1>>, 3))

\* test_confusion_matrix and test_axis_for_multiclass
TestYTrue == NdArray(<<6>>, <<1, 1, 0, 1, 0, 0>>)
TestYPred == NdArray(<<6>>, <<0, 0, 10, 0, 0, 0>>)
TestYPredLabels == NdArray(<<6>>, <<0, 0, 1, 0, 0, 0>>)
\* Mutant: the expected matrix with true classes as rows.
TestConfMatrixTrueRows == <<<<<<2, 1>>, <<3, 0>>>>>>
TestConfMatrix == <<<<<<2, 3>>, <<1, 0>>>>>>
TestConfusionMatrix ==
    \/ Construct(MetricsCall("proba", TestYTrue, TestYPred, <<>>, 2))
    \/ Construct(MetricsCall("labels", TestYTrue, TestYPredLabels, <<>>, 2))
TestAxisForMulticlass ==
    Construct(MetricsCall("proba", NdArray(<<2>>, <<2, 1>>),
                          NdArray(<<2, 3>>, <<1, 1, 8, 1, 8, 1>>), <<>>, 3))

\* batches of two items whose samples fill two further axes: shape (2, 1, l)
Rank3Arrays(vals) ==
    UNION {{NdArray(<<2, 1, l>>, f) : f \in [1..(2 * l) -> vals]} : l \in 1..MaxSamples}

\* cm(y_true, y_pred, fmt='labels', num_classes=2) with y_true of rank 3
ConstructLabelsRank3 ==
    /\ mpc = "new"
    /\ \E t \in Rank3Arrays({0, 1}), q \in Rank3Arrays({0, 1}) \cup VectorArrays({0, 1}) :
           Construct(MetricsCall("labels", t, q, <<>>, 2))

\* test_vector_batches_two_class: y_true and y_pred of shape (3, 2, 2)
TestBatchesYTrue == NdArray(<<3, 2, 2>>, <<1, 1, 0, 1, 0, 1, 1, 1, 1, 0, 1, 1>>)
TestBatchesYPred == NdArray(<<3, 2, 2>>, <<0, 1, 1, 1, 1, 0, 0, 0, 0, 0, 0, 1>>)
TestVectorBatchesTwoClass ==
    Construct(MetricsCall("labels", TestBatchesYTrue, TestBatchesYPred, <<>>, 2))

\* test_diff_shapes_two_classes, third and sixth case: y_true of shape
\* (2, 2, 2) against y_pred of shape (2, 2)
TestDiffYTrue == NdArray(<<2, 2, 2>>, <<0, 1, 1, 0, 1, 1, 0, 0>>)
TestDiffYPred == NdArray(<<2, 2>>, <<0, 1, 1, 0>>)
TestDiffShapesTwoClasses ==
    /\ mpc = "new"
    /\ \E f \in {"labels", "proba"} :
           Construct(MetricsCall(f, TestDiffYTrue, TestDiffYPred, <<>>, 2))

RECURSIVE Sum(_)
Sum(seq) == IF seq = <<>> THEN 0 ELSE seq[1] + Sum(Tail(seq))
Count(seq, v) == Cardinality({x \in DOMAIN seq : seq[x] = v})
ClassIndices == 1..minput.num_classes
RowSum(b, i) == Sum(confusion[b][i])
ColumnSum(b, j) == Sum([i \in ClassIndices |-> confusion[b][i][j]])

\* ------------------------------------------------------ metrics calculator
\* One-vs-rest counts of class k (1-based index of class k-1) in batch slot b
true_positive(b, k) == confusion[b][k][k]
false_positive(b, k) == RowSum(b, k) - confusion[b][k][k]
false_negative(b, k) == ColumnSum(b, k) - confusion[b][k][k]
true_negative(b, k) ==
    Sum([i \in ClassIndices |-> RowSum(b, i)])
        - true_positive(b, k) - false_positive(b, k) - false_negative(b, k)

Metrics ==
    {"accuracy", "f1_score", "true_positive_rate", "false_positive_rate",
     "false_negative_rate", "true_negative_rate", "positive_predictive_value",
     "false_discovery_rate", "false_omission_rate", "negative_predictive_value",
     "dice", "jaccard"}

\* A rate is <<numerator, denominator>>; denominator 0 is an undefined rate.
\* The rate of class k in slot b for a per-class metric m
rate(m, b, k) ==
    LET tp == true_positive(b, k)
        fp == false_positive(b, k)
        fn == false_negative(b, k)
        tn == true_negative(b, k)
    IN  CASE m = "true_positive_rate" -> <<tp, tp + fn>>
          [] m = "false_positive_rate" -> <<fp, fp + tn>>
          [] m = "false_negative_rate" -> <<fn, fn + tp>>
          [] m = "true_negative_rate" -> <<tn, tn + fp>>
          [] m = "positive_predictive_value" -> <<tp, tp + fp>>
          [] m = "false_discovery_rate" -> <<fp, fp + tp>>
          [] m = "false_omission_rate" -> <<fn, fn + tn>>
          [] m = "negative_predictive_value" -> <<tn, tn + fn>>
          [] m = "f1_score" -> <<2 * tp, 2 * tp + fp + fn>>
          [] m = "dice" -> <<2 * tp, 2 * tp + fp + fn>>
          [] m = "jaccard" -> <<tp, tp + fp + fn>>

\* The classes a metric is averaged over: class 1 is "positive" for two
\* classes, every class otherwise
averaged == IF minput.num_classes = 2 THEN <<2>> ELSE [k \in ClassIndices |-> k]

\* The rates that are averaged for metric m in slot b
rates(m, b) ==
    IF m = "accuracy"
    THEN <<<<Sum([k \in ClassIndices |-> confusion[b][k][k]]),
             Sum([i \in ClassIndices |-> RowSum(b, i)])>>>>
    ELSE [x \in DOMAIN averaged |-> rate(m, b, averaged[x])]

Defined(r) == r[2] # 0
Zero == <<0, 1>>
NaN == <<0, 0>>
RECURSIVE FracSum(_)
FracSum(rs) ==
    IF rs = <<>> THEN Zero
    ELSE LET t == FracSum(Tail(rs))
         IN  <<rs[1][1] * t[2] + t[1] * rs[1][2], rs[1][2] * t[2]>>
FracEq(x, y) == Defined(x) /\ Defined(y) /\ x[1] * y[2] = y[1] * x[2]

\* Mutant: an undefined rate counts as 0 in the average.
zero_guard_mean(rs, z) ==
    LET g == [x \in DOMAIN rs |-> IF Defined(rs[x]) THEN rs[x] ELSE Zero]
        t == FracSum(g)
    IN  <<t[1], t[2] * Len(g)>>

\* The average of the defined rates; z when no rate is defined
nan_mean(rs, z) ==
    LET d == SelectSeq(rs, Defined)
        t == FracSum(d)
    IN  IF d = <<>> THEN z ELSE <<t[1], t[2] * Len(d)>>

\* getattr(cm(...), metrics)(): one value per batch slot. What a metric is
\* when no averaged class has a non-zero denominator is not fixed by the
\* tests: 0 or NaN.
Evaluate(m) ==
    /\ mpc = "built"
    /\ metric = "none"
    /\ metric' = m
    /\ \E z \in {Zero, NaN} :
          mvalue' = [b \in DOMAIN confusion |-> nan_mean(rates(m, b), z)]
    /\ UNCHANGED <<imgvars, mpc, minput, confusion, mraised>>

EvaluateMetric == \E m \in Metrics : Evaluate(m)

\* test_accuracy_calculation, test_f1_calculation, test_tpr_calculation,
\* test_fpr_calculation: <<metric, y_true, y_pred, expected>>
LabelTests ==
    {<<"accuracy", <<1, 1, 0, 1>>, <<0, 0, 1, 0>>, <<0, 1>>>>,
     <<"accuracy", <<1, 1, 0, 1>>, <<1, 1, 1, 0>>, <<1, 2>>>>,
     <<"accuracy", <<1, 1, 0, 1>>, <<1, 1, 0, 1>>, <<1, 1>>>>,
     <<"f1_score", <<1, 1, 0, 1>>, <<0, 0, 1, 0>>, <<0, 1>>>>,
     <<"f1_score", <<1, 1, 0, 0>>, <<0, 1, 1, 0>>, <<1, 2>>>>,
     <<"f1_score", <<1, 1, 1, 0>>, <<1, 1, 1, 0>>, <<1, 1>>>>,
     <<"true_positive_rate", <<1, 1, 0, 1>>, <<0, 0, 1, 0>>, <<0, 1>>>>,
     <<"true_positive_rate", <<1, 1, 0, 0>>, <<0, 1, 1, 0>>, <<1, 2>>>>,
     <<"true_positive_rate", <<1, 1, 0, 0>>, <<1, 1, 1, 0>>, <<1, 1>>>>,
     <<"false_positive_rate", <<0, 0, 0, 1>>, <<0, 0, 0, 0>>, <<0, 1>>>>,
     <<"false_positive_rate", <<1, 1, 0, 0>>, <<0, 1, 1, 0>>, <<1, 2>>>>,
     <<"false_positive_rate", <<0, 0, 0, 1>>, <<1, 1, 1, 1>>, <<1, 1>>>>}
TestCalculation ==
    /\ mpc = "new"
    /\ \E c \in LabelTests :
           Construct(MetricsCall("labels", NdArray(<<4>>, c[2]), NdArray(<<4>>, c[3]), <<>>, 2))

\* test_accuracy_calculation_multiclass, test_f1_calculation_multiclass,
\* test_tpr_calculation_multiclass, test_fpr_calculation_multiclass
MulticlassYTrue == NdArray(<<2>>, <<2, 1>>)
MulticlassYPred == NdArray(<<2, 3>>, <<1, 1, 8, 1, 8, 1>>)
MulticlassTests ==
    {<<"accuracy", <<1, 1>>>>, <<"f1_score", <<1, 1>>>>,
     <<"true_positive_rate", <<1, 1>>>>, <<"false_positive_rate", <<0, 1>>>>}
TestCalculationMulticlass ==
    Construct(MetricsCall("proba", MulticlassYTrue, MulticlassYPred, <<1>>, 3))

NextMetrics ==
    \/ ConstructLabels
    \/ ConstructProba
    \/ ConstructProbaAxis
    \/ TestConfusionMatrix
    \/ TestAxisForMulticlass
    \/ ConstructLabelsRank3
    \/ TestVectorBatchesTwoClass
    \/ TestDiffShapesTwoClasses

SpecMetrics == InitMetrics /\ [][NextMetrics]_vars

\* cm(y_true, y_pred, fmt='labels', num_classes=C) on vectors of samples and
\* on batches of two single samples
ConstructForMetric ==
    /\ mpc = "new"
    /\ \/ \E t \in VectorArrays({0, 1}), q \in VectorArrays({0, 1}) :
             Construct(MetricsCall("labels", t, q, <<>>, 2))
       \/ \E t \in VectorArrays({0, 1, 2}), q \in VectorArrays({0, 1, 2}) :
             Construct(MetricsCall("labels", t, q, <<>>, 3))
       \/ \E f \in [1..2 -> {0, 1}], g \in [1..2 -> {0, 1}] :
             Construct(MetricsCall("labels", NdArray(<<2, 1>>, f), NdArray(<<2, 1>>, g), <<>>, 2))

\* The constructor followed by the evaluation of one metric
NextCalculator ==
    \/ ConstructForMetric
    \/ TestCalculation
    \/ TestCalculationMulticlass
    \/ TestVectorBatchesTwoClass
    \/ EvaluateMetric

SpecCalculator == InitMetrics /\ [][NextCalculator]_vars

\* ---------------------------------------------------- metrics properties

C10_ProbaWithoutAxisAlwaysFails ==
    (mpc # "new" /\ minput.fmt = "proba" /\ minput.axis = <<>>) =>
        mraised.type = "ValueError"

\* C10 (amended): with fmt='proba' and axis=None the constructor (and so every
\* metric) fails with ValueError whenever num_classes > 2; with two classes it
\* fails only if the shapes of y_true and y_pred differ, and otherwise reads
\* y_pred as the probability of class 1 and builds the matrix.
C10_ProbaWithoutAxisFailsForMulticlass ==
    (mpc # "new" /\ minput.fmt = "proba" /\ minput.axis = <<>>) =>
        /\ (minput.num_classes > 2 \/ minput.y_true.shape # minput.y_pred.shape)
              => (mpc = "raised" /\ mraised.type = "ValueError" /\ confusion = <<>>)
        /\ (minput.num_classes = 2 /\ minput.y_true.shape = minput.y_pred.shape)
              => (mpc = "built" /\ mraised = NoExc)

C10_Witness ==
    /\ mpc = "raised"
    /\ minput.fmt = "proba" /\ minput.axis = <<>> /\ minput.num_classes = 3
    /\ minput.y_true.shape = minput.y_pred.shape
    /\ mraised.type = "ValueError"

Rank(a) == Len(a.shape)

\* C11 as stated: whenever y_true and y_pred have rank 3 or higher, building
\* the confusion matrix fails with ValueError; only rank 0, 1 and 2 are accepted.
C11_Rank3AlwaysFails ==
    (mpc # "new" /\ Rank(minput.y_true) >= 3) =>
        (mpc = "raised" /\ mraised.type = "ValueError")

\* C11 (amended): label inputs of rank 3 are rejected with ValueError only
\* when the shapes of y_true and y_pred differ; with equal shapes the matrix
\* is built, axis 0 is the batch axis (B = shape[0]) and the further axes of
\* one item together hold its samples, as for rank 2
\* (test_vector_batches_two_class: shape (3, 2, 2) gives 3 slots of 4 samples).
C11_Rank3BuiltWhenShapesMatch ==
    (mpc # "new" /\ Rank(minput.y_true) >= 2 /\ minput.fmt = "labels") =>
        /\ minput.y_true.shape # minput.y_pred.shape =>
              (mpc = "raised" /\ mraised.type = "ValueError" /\ confusion = <<>>)
        /\ minput.y_true.shape = minput.y_pred.shape =>
              /\ mpc = "built" /\ mraised = NoExc
              /\ Len(confusion) = minput.y_true.shape[1]
              /\ \A b \in DOMAIN confusion :
                    Sum([i \in ClassIndices |-> RowSum(b, i)])
                        = Prod(Tail(minput.y_true.shape))

C11_Witness ==
    /\ mpc = "built"
    /\ minput.y_true = TestBatchesYTrue
    /\ minput.y_pred = TestBatchesYPred
    /\ Rank(minput.y_pred) = 3
    /\ Len(confusion) = 3
    /\ confusion[2] = <<<<0, 3>>, <<1, 0>>>>

C13_NumberAngleIsDeterministic ==
    (act.name = "rotate" /\ act.angle.kind = "number") =>
        \A i \in 1..n :
            (all_res[i].kind = "val" /\ all_res[i].val.op = "rotate")
                => all_res[i].val.arg = <<act.angle.lo>>

\* C14 as stated: in scale with a valid p, an item that is not selected for
\* scaling is returned unchanged and its call does not fail, so scale with
\* p = 0 completes successfully and leaves every image as it was.
C14_UnselectedItemUnchanged ==
    (/\ act.name = "scale"
     /\ act.p >= 0 /\ act.p <= 10
     /\ act.factor = "positive"
     /\ act.origin \in {"top_left", "center"}) =>
        /\ \A i \in 1..n :
              /\ all_res[i].kind = "exc" => all_res[i].type # "UnboundLocalError"
              /\ (act.p = 0 /\ all_res[i].kind # "pending")
                    => all_res[i] = Value(get(OrigBatch(n), i, "images"))
        /\ (act.p = 0 /\ Done) => (raised = NoExc /\ ret = "self")

\* channel c of the result of item i has been inverted
Inverted(i, c) == all_res[i].val.op = "invert" /\ all_res[i].val.arg[c] = 1

\* C15 as stated: in invert, p_channel is the probability of inverting, for
\* the scalar and for the per-channel form alike: a channel with probability
\* 0 is never inverted and a channel with probability 1 is always inverted.
C15_PChannelIsProbabilityOfInverting ==
    (/\ act.name = "invert"
     /\ \A c \in DOMAIN act.p_channel : act.p_channel[c] >= 0 /\ act.p_channel[c] <= 10) =>
        \A i \in 1..n :
            all_res[i].kind = "val" =>
                \A c \in 1..OrigImageShape[3] :
                    LET q == IF Len(act.p_channel) = 1 THEN act.p_channel[1]
                                                       ELSE act.p_channel[c]
                    IN  /\ q = 0 => ~Inverted(i, c)
                        /\ q = 10 => Inverted(i, c)

====
